---- MODULE Spec2Model ----
(***************************************************************************)
(* A model of openmdao/core/data_transfer.py (DataTransfer) and            *)
(* openmdao/core/group.py (Group, _get_implicit_connections,               *)
(* get_absvarpathnames).                                                   *)
(*                                                                         *)
(* Three specifications share the module:                                  *)
(*   SpecXfer  a DataTransfer object and the two vectors it works on;      *)
(*   SpecConn  a tree of groups, its variable dictionaries and the         *)
(*             resolution of explicit and implicit connections;            *)
(*   SpecLin   a group's linear operator (apply_linear, solve_linear).     *)
(* Vectors are indexed from 0 as in the source.  Floating point values     *)
(* are modelled by integers.                                               *)
(***************************************************************************)
EXTENDS Integers, Sequences, FiniteSets, TLC

(***************************************************************************)
(* Bounds                                                                  *)
(***************************************************************************)
\* size of the source vector and of the target vector of a DataTransfer
VecSize == 2
\* number of DataTransfer operations in one behaviour
MaxOps == 3
\* number of links that connect() declares in the tree
MaxLinks == 2
\* number of calls of apply_linear and solve_linear on the root group
MaxLinOps == 1

\* values the vectors hold initially
Vals == {0, 1}

VARIABLES
    \* ---- DataTransfer (SpecXfer) ----
    src_idxs,      \* self.src_idxs
    tgt_idxs,      \* self.tgt_idxs
    byobj_conns,   \* self.byobj_conns, a list of (tgt, src) pairs
    src_slice,     \* self.src_slice
    tgt_slice,     \* self.tgt_slice
    srcvec,        \* the source VecWrapper: [vec |-> flat array, obj |-> by-object values]
    tgtvec,        \* the target VecWrapper
    xlast,         \* the last operation on the vectors, with the vectors it started from
    rt,            \* progress of a forward / zero / reverse round trip
    xops,          \* number of operations so far
    \* ---- the group tree and its connections (SpecConn) ----
    promotes,      \* system._promotes of every system
    links,         \* group._src of every group: target name -> source name
    params_dict,   \* group._params_dict of every group: pathname -> relative name
    unknowns_dict, \* group._unknowns_dict of every group: pathname -> relative name
    ret,           \* what the last call returned or raised, if it resolved connections
    \* ---- the linear operator of the root group (SpecLin) ----
    active,           \* system.is_active() of every system
    local_subsystems, \* group._local_subsystems of every group, in order
    phase,            \* "new", "comm" after _setup_communicators, "ready" after _setup_vectors
    connections,      \* the connection map the vectors were set up with
    dvecs,            \* the flat arrays of dparams (dp), dunknowns (du) and dresids (dr)
    rhs_vec,          \* self.rhs_vec.array
    sol_vec,          \* self.sol_vec.array
    rhs_buf,          \* self.rhs_buf
    sol_buf,          \* self.sol_buf
    ln_mode,          \* self.ln_solver.options['mode']
    lcall,            \* the last call on the root group, its arguments and what it returned
    log,              \* what that call did, in order: transfers, child steps, solver calls
    lops,             \* number of calls on the root group so far
    \* ---- the nonlinear operations of the groups (SpecNl) ----
    nvecs,            \* the flat arrays of params (p), unknowns (u) and resids (r)
    jac_objs,         \* the mapping object each component's jacobian last returned
    jacobian_cache    \* component._jacobian_cache: a reference to such an object

xferVars == <<src_idxs, tgt_idxs, byobj_conns, src_slice, tgt_slice,
              srcvec, tgtvec, xlast, rt, xops>>

connVars == <<promotes, links, params_dict, unknowns_dict, ret>>

linVars == <<active, local_subsystems, phase, connections, dvecs,
             rhs_vec, sol_vec, rhs_buf, sol_buf, ln_mode, lcall, log, lops>>

nlVars == <<nvecs, jac_objs, jacobian_cache>>

vars == <<xferVars, connVars, linVars, nlVars>>


(***************************************************************************)
(* The system tree: the root group holds component A and group S, which    *)
(* holds components B and C, added in that order.  A declares the unknown  *)
(* x; B and C each declare the parameter x and the unknown y.              *)
(***************************************************************************)
Systems == {"root", "A", "S", "B", "C"}
Groups == {"root", "S"}
Components == Systems \ Groups

\* system.name, set by Group.add; the root has the empty name
Name == [root |-> "", A |-> "A", S |-> "S", B |-> "B", C |-> "C"]

\* group._subsystems, in the order of the add() calls
Subsystems == [root |-> <<"A", "S">>, S |-> <<"B", "C">>]

Parent == [A |-> "root", S |-> "root", B |-> "S", C |-> "S"]

CompParams == [A |-> {}, B |-> {"x"}, C |-> {"x"}]
CompUnknowns == [A |-> {"x"}, B |-> {"y"}, C |-> {"y"}]

\* a map with no entry
EmptyMap == [p \in {} |-> <<>>]

NoRet == [op |-> "none", group |-> "root", ok |-> TRUE, conns |-> EmptyMap,
          var_name |-> <<>>, dict_name |-> ""]

\* the tree before any connect() and before setup
ConnIdle ==
    /\ promotes = [s \in Systems |-> {}]
    /\ links = [g \in Groups |-> EmptyMap]
    /\ params_dict = [g \in Groups |-> EmptyMap]
    /\ unknowns_dict = [g \in Groups |-> EmptyMap]
    /\ ret = NoRet

\* the flat vectors of the tree: the unknowns and the parameters in order;
\* a child's view is a part of the same array
LinUnknowns == <<<<"A", "x">>, <<"S", "B", "y">>, <<"S", "C", "y">>>>
LinParams == <<<<"S", "B", "x">>, <<"S", "C", "x">>>>

UIdx == 0 .. (Len(LinUnknowns) - 1)
PIdx == 0 .. (Len(LinParams) - 1)

ZeroU == [i \in UIdx |-> 0]
OnesU == [i \in UIdx |-> 1]
ZeroP == [i \in PIdx |-> 0]

ZeroD == [dp |-> ZeroP, du |-> ZeroU, dr |-> ZeroU]

NoLinCall == [op |-> "none", group |-> "root", mode |-> "", rhs |-> ZeroU,
              returned |-> "", value |-> ZeroU]

\* a tree on which no communicator and no vector has been set up
LinIdle ==
    /\ active = [s \in Systems |-> TRUE]
    /\ local_subsystems = [g \in Groups |-> <<>>]
    /\ phase = "new"
    /\ connections = EmptyMap
    /\ dvecs = ZeroD
    /\ rhs_vec = ZeroU /\ sol_vec = ZeroU /\ rhs_buf = ZeroU /\ sol_buf = ZeroU
    /\ ln_mode = "fwd"
    /\ lcall = NoLinCall
    /\ log = <<>>
    /\ lops = 0

\* the nonlinear vectors: the parameters, the unknowns and the residuals
ZeroN == [p |-> ZeroP, u |-> ZeroU, r |-> ZeroU]

\* a local Jacobian entry: a bare real scalar or a two-dimensional array
Scalar(v) == [scalar |-> TRUE, val |-> v, rows |-> <<>>]
Array(rows) == [scalar |-> FALSE, val |-> 0, rows |-> rows]

\* what a jacobian routine returns: None or a mapping from keys to entries
JacNone == [none |-> TRUE, map |-> EmptyMap]
JacMap(map) == [none |-> FALSE, map |-> map]

\* no jacobian was computed: no returned object, no _jacobian_cache
NlIdle ==
    /\ nvecs = ZeroN
    /\ jac_objs = [c \in Components |-> JacNone]
    /\ jacobian_cache = [c \in Components |-> [set |-> FALSE, ref |-> c]]

(***************************************************************************)
(* Helpers on sequences and vectors                                        *)
(***************************************************************************)
Range(s) == {s[i] : i \in DOMAIN s}

Idx == 0 .. (VecSize - 1)

ZeroVec == [i \in Idx |-> 0]

\* sequences over S of length at most n
SeqsUpTo(S, n) == UNION {[1 .. k -> S] : k \in 0 .. n}

IsInjective(s) == \A i, j \in DOMAIN s : s[i] = s[j] => i = j

IsSorted(s) == \A i, j \in DOMAIN s : i < j => s[i] <= s[j]

Permutations1(n) == {p \in [1 .. n -> 1 .. n] : \A i, j \in 1 .. n : p[i] = p[j] => i = j}

(***************************************************************************)
(* openmdao.util.to_slices: sort two index arrays on the first one, then   *)
(* turn each into a contiguous range when it is one.  A slice is           *)
(* [isslice |-> TRUE, start, stop]; an index array keeps its indices.      *)
(***************************************************************************)
IsContiguous(idxs) == \A k \in 1 .. (Len(idxs) - 1) : idxs[k + 1] = idxs[k] + 1

to_slice(idxs) ==
    IF Len(idxs) = 0
    THEN [isslice |-> TRUE, start |-> 0, stop |-> 0, idxs |-> <<>>]
    ELSE IF IsContiguous(idxs)
         THEN [isslice |-> TRUE, start |-> idxs[1], stop |-> idxs[Len(idxs)] + 1,
               idxs |-> <<>>]
         ELSE [isslice |-> FALSE, start |-> 0, stop |-> 0, idxs |-> idxs]

\* the possible results: the order of equal keys is the sort's choice
to_slices(idxs1, idxs2) ==
    {<<to_slice([k \in 1 .. Len(idxs1) |-> idxs1[p[k]]]),
       to_slice([k \in 1 .. Len(idxs2) |-> idxs2[p[k]]])>> :
        p \in {q \in Permutations1(Len(idxs1)) :
                 IsSorted([k \in 1 .. Len(idxs1) |-> idxs1[q[k]]])}}

\* the indices a slice or an index array selects, in order
Indices(sl) ==
    IF sl.isslice THEN [k \in 1 .. (sl.stop - sl.start) |-> sl.start + k - 1]
    ELSE sl.idxs

(***************************************************************************)
(* numpy indexing                                                          *)
(***************************************************************************)
\* vec[sl]
Get(vec, sl) == [k \in 1 .. Len(Indices(sl)) |-> vec[Indices(sl)[k]]]

\* vec[sl] = vals : assignments in order, the last write to an index wins
RECURSIVE SetFrom(_, _, _, _)
SetFrom(vec, idxs, vals, k) ==
    IF k > Len(idxs) THEN vec
    ELSE SetFrom([vec EXCEPT ![idxs[k]] = vals[k]], idxs, vals, k + 1)

Set(vec, sl, vals) == SetFrom(vec, Indices(sl), vals, 1)

\* vec[sl] += vals : numpy reads vec[sl], adds, and assigns the sums back
IAdd(vec, sl, vals) ==
    Set(vec, sl, [k \in 1 .. Len(vals) |-> Get(vec, sl)[k] + vals[k]])

\* np.add.at(vec, idxs, vals) : unbuffered, every contribution is added
RECURSIVE AddAtFrom(_, _, _, _)
AddAtFrom(vec, idxs, vals, k) ==
    IF k > Len(idxs) THEN vec
    ELSE AddAtFrom([vec EXCEPT ![idxs[k]] = @ + vals[k]], idxs, vals, k + 1)

\* a buffered vec[idxs] += vals in place of np.add.at
AddAt_Buffered(vec, sl, vals) == IAdd(vec, sl, vals)

AddAt(vec, sl, vals) == AddAtFrom(vec, Indices(sl), vals, 1)

\* tgtvec[tgt] = srcvec[src] for each by-object connection, in list order
RECURSIVE SetObjs(_, _, _, _)
SetObjs(tobj, sobj, conns, k) ==
    IF k > Len(conns) THEN tobj
    ELSE SetObjs([tobj EXCEPT ![conns[k][1]] = sobj[conns[k][2]]], sobj, conns, k + 1)

(***************************************************************************)
(* DataTransfer.transfer(srcvec, tgtvec, mode, deriv): the two vectors     *)
(* after the call.                                                         *)
(***************************************************************************)
\* a reverse transfer that overwrites the source entries
transferRev_Overwrite(sslice, tslice, sv, tv) ==
    [src |-> [sv EXCEPT !.vec = Set(sv.vec, sslice, Get(tv.vec, tslice))],
     tgt |-> tv]

transferRev(sslice, tslice, sv, tv) ==
    [src |-> [sv EXCEPT !.vec =
                 IF sslice.isslice
                 THEN IAdd(sv.vec, sslice, Get(tv.vec, tslice))
                 ELSE AddAt(sv.vec, sslice, Get(tv.vec, tslice))],
     tgt |-> tv]

\* a forward transfer that moves the by-object values in a derivative scatter too
transferFwd_ObjsAlways(sslice, tslice, conns, sv, tv, deriv) ==
    [src |-> sv,
     tgt |-> [vec |-> Set(tv.vec, tslice, Get(sv.vec, sslice)),
              obj |-> SetObjs(tv.obj, sv.obj, conns, 1)]]

\* a forward transfer that accumulates into the target entries
transferFwd_Accumulate(sslice, tslice, conns, sv, tv, deriv) ==
    [src |-> sv,
     tgt |-> [vec |-> IAdd(tv.vec, tslice, Get(sv.vec, sslice)),
              obj |-> IF ~deriv THEN SetObjs(tv.obj, sv.obj, conns, 1) ELSE tv.obj]]

transferFwd(sslice, tslice, conns, sv, tv, deriv) ==
    [src |-> sv,
     tgt |-> [vec |-> Set(tv.vec, tslice, Get(sv.vec, sslice)),
              obj |-> IF ~deriv THEN SetObjs(tv.obj, sv.obj, conns, 1) ELSE tv.obj]]

transfer(sslice, tslice, conns, sv, tv, mode, deriv) ==
    IF mode = "rev"
    THEN transferRev(sslice, tslice, sv, tv)
    ELSE transferFwd(sslice, tslice, conns, sv, tv, deriv)

(***************************************************************************)
(* SpecXfer                                                                *)
(***************************************************************************)
Modes == {"fwd", "rev"}

ObjSrcs == {"os1", "os2"}
ObjTgts == {"ot1", "ot2"}

\* the by-object connection lists: a target has one source
ByObjLists == {<<>>, <<<<"ot1", "os1">>, <<"ot2", "os2">>>>}

\* the transfer plans: paired index lists; a target index occurs once, as a
\* connection map has one source per target
Plans ==
    {pl \in [src : SeqsUpTo(Idx, VecSize), tgt : SeqsUpTo(Idx, VecSize)] :
        Len(pl.src) = Len(pl.tgt) /\ IsInjective(pl.tgt)}

NoCall == [op |-> "none", mode |-> "fwd", deriv |-> FALSE,
           src |-> ZeroVec, tgt |-> ZeroVec,
           sobj |-> [n \in ObjSrcs |-> "n"], tobj |-> [n \in ObjTgts |-> "n"]]

Call(op, mode, deriv) ==
    [op |-> op, mode |-> mode, deriv |-> deriv,
     src |-> srcvec.vec, tgt |-> tgtvec.vec, sobj |-> srcvec.obj, tobj |-> tgtvec.obj]

RtIdle == [stage |-> 0, s |-> ZeroVec]

\* a DataTransfer with an empty plan and all-zero vectors
XferIdle ==
    /\ src_idxs = <<>> /\ tgt_idxs = <<>> /\ byobj_conns = <<>>
    /\ src_slice = to_slice(<<>>) /\ tgt_slice = to_slice(<<>>)
    /\ srcvec = [vec |-> ZeroVec, obj |-> [n \in ObjSrcs |-> "n"]]
    /\ tgtvec = [vec |-> ZeroVec, obj |-> [n \in ObjTgts |-> "n"]]
    /\ xlast = NoCall
    /\ rt = RtIdle
    /\ xops = 0

\* DataTransfer.__init__ for a plan and a mode; any source vector, a uniform
\* target vector
InitXfer ==
    /\ \E pl \in Plans, mode \in Modes :
         /\ src_idxs = pl.src
         /\ tgt_idxs = pl.tgt
         /\ IF mode = "fwd"
            THEN \E r \in to_slices(pl.src, pl.tgt) :
                    src_slice = r[1] /\ tgt_slice = r[2]
            ELSE \E r \in to_slices(pl.tgt, pl.src) :
                    tgt_slice = r[1] /\ src_slice = r[2]
    /\ byobj_conns \in ByObjLists
    /\ srcvec \in [vec : [Idx -> Vals], obj : {[os1 |-> "a", os2 |-> "b"]}]
    /\ tgtvec \in [vec : {[i \in Idx |-> c] : c \in Vals}, obj : [ObjTgts -> {"n"}]]
    /\ xlast = NoCall
    /\ rt = RtIdle
    /\ xops = 0
    /\ ConnIdle
    /\ LinIdle
    /\ NlIdle

\* the round trip: from an all-zero target, forward (1), source zeroed (2), reverse (3)
RtNext(op, mode) ==
    IF op = "transfer" /\ mode = "fwd" /\ tgtvec.vec = ZeroVec
    THEN [stage |-> 1, s |-> srcvec.vec]
    ELSE IF op = "zero_src" /\ rt.stage = 1 THEN [rt EXCEPT !.stage = 2]
    ELSE IF op = "transfer" /\ mode = "rev" /\ rt.stage = 2 THEN [rt EXCEPT !.stage = 3]
    ELSE RtIdle

Transfer(mode, deriv) ==
    /\ xops < MaxOps
    /\ LET r == transfer(src_slice, tgt_slice, byobj_conns, srcvec, tgtvec, mode, deriv)
       IN  srcvec' = r.src /\ tgtvec' = r.tgt
    /\ xlast' = Call("transfer", mode, deriv)
    /\ rt' = RtNext("transfer", mode)
    /\ xops' = xops + 1
    /\ UNCHANGED <<src_idxs, tgt_idxs, byobj_conns, src_slice, tgt_slice>>
    /\ UNCHANGED <<connVars, linVars, nlVars>>

\* the caller zeroes the flat array of the source vector
ZeroSource ==
    /\ xops < MaxOps
    /\ srcvec' = [srcvec EXCEPT !.vec = ZeroVec]
    /\ xlast' = Call("zero_src", "fwd", FALSE)
    /\ rt' = RtNext("zero_src", "fwd")
    /\ xops' = xops + 1
    /\ UNCHANGED <<src_idxs, tgt_idxs, byobj_conns, src_slice, tgt_slice, tgtvec>>
    /\ UNCHANGED <<connVars, linVars, nlVars>>

NextXfer ==
    \/ \E mode \in Modes, deriv \in BOOLEAN : Transfer(mode, deriv)
    \/ ZeroSource

SpecXfer == InitXfer /\ [][NextXfer]_vars

(***************************************************************************)
(* Variable dictionaries: Group._setup_paths, Group._var_pathname and      *)
(* Group._setup_variables.  A pathname and a relative name are the         *)
(* sequences of the parts that ':' separates.                              *)
(***************************************************************************)
RECURSIVE pathname(_)
pathname(sys) ==
    IF sys = "root" THEN <<>> ELSE pathname(Parent[sys]) \o <<Name[sys]>>

\* System.promoted: the name is one of the names the subsystem promotes
promoted(sys, name) == name \in promotes[sys]

_var_pathname(name, subsystem) ==
    IF promoted(subsystem, name) THEN name
    ELSE IF Len(Name[subsystem]) > 0 THEN <<Name[subsystem]>> \o name
    ELSE name

\* Component._setup_variables: the declared variables under their pathnames,
\* each with its own name as relative name
CompVars(comp, names) ==
    [p \in {pathname(comp) \o <<n>> : n \in names} |-> <<p[Len(p)]>>]

\* what sys._setup_variables() computes for the parameters (kind "params")
\* or the unknowns of sys
RECURSIVE SetupVars(_, _)
RECURSIVE SetupSubs(_, _, _)
SetupSubs(g, kind, k) ==
    IF k > Len(Subsystems[g]) THEN EmptyMap
    ELSE LET sub == Subsystems[g][k]
             subvars == SetupVars(sub, kind)
         IN  SetupSubs(g, kind, k + 1) @@
             [p \in DOMAIN subvars |-> _var_pathname(subvars[p], sub)]

SetupVars(sys, kind) ==
    IF sys \in Components
    THEN CompVars(sys, IF kind = "params" THEN CompParams[sys] ELSE CompUnknowns[sys])
    ELSE SetupSubs(sys, kind, 1) @@
         (IF kind = "params" THEN params_dict[sys] ELSE unknowns_dict[sys])

(***************************************************************************)
(* get_absvarpathnames, Group._get_explicit_connections and                *)
(* _get_implicit_connections.  A call's outcome is the map it returns      *)
(* (ok) or the error it raises, which names a variable and a dictionary.   *)
(***************************************************************************)
Returned(conns) ==
    [ok |-> TRUE, conns |-> conns, var_name |-> <<>>, dict_name |-> ""]

Raised(var_name, dict_name) ==
    [ok |-> FALSE, conns |-> EmptyMap, var_name |-> var_name, dict_name |-> dict_name]

\* the pathnames of var_dict whose relative name is var_name (the list pnames)
get_absvarpathnames(var_name, var_dict) ==
    {pn \in DOMAIN var_dict : var_dict[pn] = var_name}

\* get_absvarpathnames raises: pnames is empty
NotFound(var_name, var_dict) == get_absvarpathnames(var_name, var_dict) = {}

\* resolving the link to target tgt of group g raises
LinkFails_SourceOnly(g, tgt) == NotFound(links[g][tgt], unknowns_dict[g])

LinkFails(g, tgt) ==
    \/ NotFound(links[g][tgt], unknowns_dict[g])
    \/ NotFound(tgt, params_dict[g])

\* the error that resolving the link to tgt raises: the source is looked up first
LinkError(g, tgt) ==
    IF NotFound(links[g][tgt], unknowns_dict[g])
    THEN Raised(links[g][tgt], "unknowns")
    ELSE Raised(tgt, "params")

\* connections[tgt_pathname] = src_pathname, with the target as value
OwnConnections_Swapped(g, sel) ==
    [pn \in {sel[tgt] : tgt \in DOMAIN links[g]} |->
        CHOOSE tp \in UNION {get_absvarpathnames(tgt, params_dict[g]) : tgt \in DOMAIN links[g]} :
            \E tgt \in DOMAIN links[g] :
                sel[tgt] = pn /\ tp \in get_absvarpathnames(tgt, params_dict[g])]

\* the entries the links of g itself add, where sel[tgt] is element [0] of
\* the pathnames found for the source of tgt
OwnConnections(g, sel) ==
    [pn \in UNION {get_absvarpathnames(tgt, params_dict[g]) : tgt \in DOMAIN links[g]} |->
        sel[CHOOSE tgt \in DOMAIN links[g] : pn \in get_absvarpathnames(tgt, params_dict[g])]]

\* the possible outcomes of g._get_explicit_connections(): the subgroups
\* first, in order, then the links of g in the order of the dictionary
RECURSIVE explicit_connections(_)
RECURSIVE SubgroupConnections(_, _, _)
SubgroupConnections(g, k, acc) ==
    IF k > Len(Subsystems[g]) THEN acc
    ELSE IF Subsystems[g][k] \notin Groups THEN SubgroupConnections(g, k + 1, acc)
    ELSE SubgroupConnections(g, k + 1,
            {IF ~a.ok THEN a
             ELSE IF ~o.ok THEN o
             ELSE Returned(o.conns @@ a.conns) :
                a \in acc, o \in explicit_connections(Subsystems[g][k])})

explicit_connections(g) ==
    LET subs == SubgroupConnections(g, 1, {Returned(EmptyMap)})
        failing == {tgt \in DOMAIN links[g] : LinkFails(g, tgt)}
        sels == [tgt \in DOMAIN links[g] |->
                    get_absvarpathnames(links[g][tgt], unknowns_dict[g])]
    IN  UNION {IF ~a.ok THEN {a}
               ELSE IF failing # {} THEN {LinkError(g, tgt) : tgt \in failing}
               ELSE {Returned(OwnConnections(g, sel) @@ a.conns) :
                        sel \in {f \in [DOMAIN links[g] -> UNION {sels[t] : t \in DOMAIN links[g]}] :
                                    \A t \in DOMAIN links[g] : f[t] \in sels[t]}} :
               a \in subs}

\* abs_unknowns and abs_params: the pathnames under each relative name
AbsNames(var_dict) ==
    [n \in {var_dict[pn] : pn \in DOMAIN var_dict} |->
        {pn \in DOMAIN var_dict : var_dict[pn] = n}]

\* the relative names for which the check raises, when only the names that
\* some parameter has were checked
MultipleUnknowns_OnlyConnected(pd, ud) ==
    {n \in DOMAIN AbsNames(ud) \cap DOMAIN AbsNames(pd) : Cardinality(AbsNames(ud)[n]) > 1}

\* the relative names that correspond to multiple unknowns
MultipleUnknowns(pd, ud) ==
    {n \in DOMAIN AbsNames(ud) : Cardinality(AbsNames(ud)[n]) > 1}

\* the parameters connected to the unknown named uname, when only one is
ConnectedParams_First(pd, uname) ==
    IF uname \in DOMAIN AbsNames(pd)
    THEN {CHOOSE pn \in AbsNames(pd)[uname] : TRUE}
    ELSE {}

\* pabs = abs_params.get(uname, ())
ConnectedParams(pd, uname) ==
    IF uname \in DOMAIN AbsNames(pd) THEN AbsNames(pd)[uname] ELSE {}

\* the possible outcomes of _get_implicit_connections(params_dict, unknowns_dict)
implicit_connections(pd, ud) ==
    IF MultipleUnknowns(pd, ud) # {}
    THEN {Raised(n, "unknowns") : n \in MultipleUnknowns(pd, ud)}
    ELSE {Returned(
            [pn \in UNION {ConnectedParams(pd, uname) : uname \in DOMAIN AbsNames(ud)} |->
                CHOOSE ua \in AbsNames(ud)[pd[pn]] : TRUE])}

(***************************************************************************)
(* SpecConn                                                                *)
(***************************************************************************)
VarNames == {<<"x">>, <<"y">>}

\* the names connect() is called with on each group
SourceNames == [root |-> {<<"x">>, <<"A", "x">>}, S |-> {<<"y">>, <<"B", "y">>}]
TargetNames == [root |-> {<<"x">>, <<"S", "C", "x">>}, S |-> {<<"x">>, <<"C", "x">>}]

NumLinks(lk) == Cardinality(DOMAIN lk["root"]) + Cardinality(DOMAIN lk["S"])

\* the tree as built by add(): every system promotes some of its variables
InitConn ==
    /\ promotes \in [Systems -> SUBSET VarNames]
    /\ promotes["root"] = {}
    /\ promotes["A"] \subseteq {<<"x">>}
    /\ links = [g \in Groups |-> EmptyMap]
    /\ params_dict = [g \in Groups |-> EmptyMap]
    /\ unknowns_dict = [g \in Groups |-> EmptyMap]
    /\ ret = NoRet
    /\ XferIdle
    /\ LinIdle
    /\ NlIdle

\* Group.connect(source, target) on group g
Connect(g, source, target) ==
    /\ links' = [links EXCEPT ![g] = [t \in {target} |-> source] @@ @]
    /\ NumLinks(links') <= MaxLinks
    /\ ret' = NoRet
    /\ UNCHANGED <<promotes, params_dict, unknowns_dict>>
    /\ UNCHANGED <<xferVars, linVars, nlVars>>

\* root._setup_variables(), which sets the dictionaries of every group
SetupVariables ==
    /\ params_dict' = [g \in Groups |-> SetupVars(g, "params")]
    /\ unknowns_dict' = [g \in Groups |-> SetupVars(g, "unknowns")]
    /\ ret' = NoRet
    /\ UNCHANGED <<promotes, links>>
    /\ UNCHANGED <<xferVars, linVars, nlVars>>

\* g._get_explicit_connections()
GetExplicitConnections(g) ==
    /\ \E o \in explicit_connections(g) :
         ret' = [op |-> "explicit", group |-> g, ok |-> o.ok, conns |-> o.conns,
                 var_name |-> o.var_name, dict_name |-> o.dict_name]
    /\ UNCHANGED <<promotes, links, params_dict, unknowns_dict>>
    /\ UNCHANGED <<xferVars, linVars, nlVars>>

\* _get_implicit_connections(g._params_dict, g._unknowns_dict)
GetImplicitConnections(g) ==
    /\ \E o \in implicit_connections(params_dict[g], unknowns_dict[g]) :
         ret' = [op |-> "implicit", group |-> g, ok |-> o.ok, conns |-> o.conns,
                 var_name |-> o.var_name, dict_name |-> o.dict_name]
    /\ UNCHANGED <<promotes, links, params_dict, unknowns_dict>>
    /\ UNCHANGED <<xferVars, linVars, nlVars>>

NextConn ==
    \/ \E g \in Groups : \E source \in SourceNames[g], target \in TargetNames[g] :
          Connect(g, source, target)
    \/ SetupVariables
    \/ \E g \in Groups : GetExplicitConnections(g)
    \/ \E g \in Groups : GetImplicitConnections(g)

SpecConn == InitConn /\ [][NextConn]_vars

(***************************************************************************)
(* Group._setup_communicators                                              *)
(***************************************************************************)
\* the _local_subsystems of every group after g._setup_communicators(comm),
\* from the ones in ls
RECURSIVE setup_communicators(_, _)
RECURSIVE SetupCommSubs(_, _, _)
SetupCommSubs(g, k, ls) ==
    IF k > Len(Subsystems[g]) THEN ls
    ELSE LET sub == Subsystems[g][k]
             ls1 == IF sub \in Groups THEN setup_communicators(sub, ls) ELSE ls
             ls2 == IF active[sub] THEN [ls1 EXCEPT ![g] = Append(@, sub)] ELSE ls1
         IN  SetupCommSubs(g, k + 1, ls2)

setup_communicators(g, ls) ==
    IF ~active[g] THEN [ls EXCEPT ![g] = <<>>]
    ELSE SetupCommSubs(g, 1, [ls EXCEPT ![g] = <<>>])

(***************************************************************************)
(* The vectors and the transfers of a group's VarManager                   *)
(***************************************************************************)
IsPrefix(a, b) == Len(a) <= Len(b) /\ \A i \in 1 .. Len(a) : a[i] = b[i]

\* the positions in the flat unknowns array of the unknowns of system sys
\* (the keys of its dunknowns view), and likewise for the parameters
UnknownsOf(sys) == {i \in UIdx : IsPrefix(pathname(sys), LinUnknowns[i + 1])}
ParamsOf(sys) == {i \in PIdx : IsPrefix(pathname(sys), LinParams[i + 1])}

UIndex(pn) == CHOOSE i \in UIdx : LinUnknowns[i + 1] = pn
PIndex(pn) == CHOOSE i \in PIdx : LinParams[i + 1] = pn

\* the group that propagates the parameter tgt: the innermost group that
\* holds the parameter and its source
ParamOwner(tgt) ==
    CHOOSE g \in Groups :
        /\ IsPrefix(pathname(g), tgt) /\ IsPrefix(pathname(g), connections[tgt])
        /\ \A h \in Groups :
              (IsPrefix(pathname(h), tgt) /\ IsPrefix(pathname(h), connections[tgt]))
                  => Len(pathname(h)) <= Len(pathname(g))

\* the positions of the parameters that group g transfers, in array order
RECURSIVE OwnedFrom(_, _)
OwnedFrom(g, k) ==
    IF k > Len(LinParams) THEN <<>>
    ELSE (IF LinParams[k] \in DOMAIN connections /\ ParamOwner(LinParams[k]) = g
          THEN <<k - 1>> ELSE <<>>) \o OwnedFrom(g, k + 1)

\* the full transfer plan of group g
XferPlan(g) ==
    [tgt |-> OwnedFrom(g, 1),
     src |-> [k \in 1 .. Len(OwnedFrom(g, 1)) |->
                 UIndex(connections[LinParams[OwnedFrom(g, 1)[k] + 1]])]]

\* varmanager._transfer_data(mode=mode, deriv=True) of group g: the
\* DataTransfer built for that mode, run between dunknowns and dparams
transfer_data(g, d, mode) ==
    LET pl == XferPlan(g)
        sl == IF mode = "fwd"
              THEN CHOOSE r \in to_slices(pl.src, pl.tgt) : TRUE
              ELSE LET r == CHOOSE q \in to_slices(pl.tgt, pl.src) : TRUE
                   IN  <<r[2], r[1]>>
        r == transfer(sl[1], sl[2], <<>>,
                      [vec |-> d.du, obj |-> EmptyMap],
                      [vec |-> d.dp, obj |-> EmptyMap], mode, TRUE)
    IN  [d EXCEPT !.du = r.src.vec, !.dp = r.tgt.vec]

(***************************************************************************)
(* The children's own apply_linear                                         *)
(***************************************************************************)
IsParamComp(sys) == sys = "A"

\* dy/dx of the components B (y = 2x) and C (y = 3x)
Jac == [B |-> 2, C |-> 3]

\* Component.apply_linear of a component with jacobian Jac[c]
LeafApply(c, d, mode) ==
    LET y == CHOOSE i \in UnknownsOf(c) : TRUE
        x == CHOOSE i \in ParamsOf(c) : TRUE
    IN  IF mode = "fwd"
        THEN [d EXCEPT !.dr[y] = @ + Jac[c] * d.dp[x]]
        ELSE [d EXCEPT !.dp[x] = @ + Jac[c] * d.dr[y]]

\* ParamComp.apply_linear: the identity
ParamCompApply(c, d, mode) ==
    IF mode = "fwd"
    THEN [d EXCEPT !.dr = [i \in UIdx |-> IF i \in UnknownsOf(c) THEN @[i] + d.du[i] ELSE @[i]]]
    ELSE [d EXCEPT !.du = [i \in UIdx |-> IF i \in UnknownsOf(c) THEN @[i] + d.dr[i] ELSE @[i]]]

(***************************************************************************)
(* Group.apply_linear.  A state is the vectors d and the log of events.    *)
(***************************************************************************)
Event(kind, sys, mode, pre, arg, mid, post) ==
    [kind |-> kind, sys |-> sys, mode |-> mode,
     pre |-> pre, arg |-> arg, mid |-> mid, post |-> post,
     rhs |-> ZeroU, result |-> ZeroU]

\* isinstance(system, Component) and not isinstance(system, ParamComp)
IsExplicitComponent(sys) == sys \in Components /\ ~IsParamComp(sys)

\* dresids.vec *= -1.0 on the view of child c
NegateDr(c, d) ==
    [d EXCEPT !.dr = [i \in UIdx |-> IF i \in UnknownsOf(c) THEN 0 - @[i] ELSE @[i]]]

\* the forward identity term left out
AddIdentityFwd_None(c, d) == d

\* for var in dunknowns.keys(): dresids[var] += dunknowns.flat[var]
AddIdentityFwd(c, d) ==
    [d EXCEPT !.dr = [i \in UIdx |-> IF i \in UnknownsOf(c) THEN @[i] + d.du[i] ELSE @[i]]]

\* the reverse identity term written over dunknowns
AddIdentityRev_Overwrite(c, d) ==
    [d EXCEPT !.du = [i \in UIdx |-> IF i \in UnknownsOf(c) THEN d.dr[i] ELSE @[i]]]

\* for var in dunknowns.keys(): dunknowns[var] += dresids.flat[var]
AddIdentityRev(c, d) ==
    [d EXCEPT !.du = [i \in UIdx |-> IF i \in UnknownsOf(c) THEN @[i] + d.dr[i] ELSE @[i]]]

\* the statements of a method run in sequence: F applied to the value of x
Then(x, F(_)) == CHOOSE r \in {F(v) : v \in {x}} : TRUE

RECURSIVE apply_linear(_, _, _)
RECURSIVE SystemApply(_, _, _)
RECURSIVE ChildStep(_, _, _)
RECURSIVE ChildLoop(_, _, _, _)

\* system.apply_linear(params, unknowns, dparams, dunknowns, dresids, mode)
SystemApply(sys, s, mode) ==
    IF sys \in Groups THEN apply_linear(sys, s, mode)
    ELSE Then(s, LAMBDA sv :
            IF IsParamComp(sys) THEN [sv EXCEPT !.d = ParamCompApply(sys, sv.d, mode)]
            ELSE [sv EXCEPT !.d = LeafApply(sys, sv.d, mode)])

\* one pass of the loop over the local subsystems, for child c
ChildStep(c, s, mode) ==
    Then(s, LAMBDA sv :
        IF IsExplicitComponent(c)
        THEN IF mode = "fwd"
             THEN Then(SystemApply(c, sv, mode), LAMBDA mid :
                  Then(AddIdentityFwd(c, NegateDr(c, mid.d)), LAMBDA post :
                     [d |-> post,
                      log |-> Append(mid.log,
                                     Event("child", c, mode, sv.d, sv.d, mid.d, post))]))
             ELSE Then(NegateDr(c, sv.d), LAMBDA arg :
                  Then(SystemApply(c, [sv EXCEPT !.d = arg], mode), LAMBDA mid :
                  Then(AddIdentityRev(c, NegateDr(c, mid.d)), LAMBDA post :
                     [d |-> post,
                      log |-> Append(mid.log,
                                     Event("child", c, mode, sv.d, arg, mid.d, post))])))
        ELSE Then(SystemApply(c, sv, mode), LAMBDA mid :
                [d |-> mid.d,
                 log |-> Append(mid.log,
                                Event("child", c, mode, sv.d, sv.d, mid.d, mid.d))]))

\* a loop that runs a derivative transfer for each child before its step
ChildLoop_TransferEach(g, k, s, mode) ==
    IF k > Len(local_subsystems[g]) THEN s
    ELSE Then(s, LAMBDA s0 :
         Then(transfer_data(g, s0.d, mode), LAMBDA arg :
         Then(ChildStep(local_subsystems[g][k],
                        [d |-> arg,
                         log |-> Append(s0.log,
                                        Event("transfer_to", local_subsystems[g][k], mode,
                                              s0.d, s0.d, arg, arg))], mode), LAMBDA sv :
            ChildLoop(g, k + 1, sv, mode))))

ChildLoop(g, k, s, mode) ==
    IF k > Len(local_subsystems[g]) THEN s
    ELSE Then(ChildStep(local_subsystems[g][k], s, mode), LAMBDA sv :
            ChildLoop(g, k + 1, sv, mode))

\* the full scatter of group g, logged
FullScatter(g, s, mode) ==
    Then(s, LAMBDA sv :
        Then(transfer_data(g, sv.d, mode), LAMBDA post :
            [d |-> post,
             log |-> Append(sv.log, Event("transfer", g, mode, sv.d, sv.d, post, post))]))

\* the full scatter run before the children in both modes
apply_linear_ScatterFirst(g, s, mode) ==
    IF ~active[g] THEN s
    ELSE Then(FullScatter(g, s, mode), LAMBDA s1 : ChildLoop(g, 1, s1, mode))

apply_linear(g, s, mode) ==
    IF ~active[g] THEN s
    ELSE Then(IF mode = "fwd" THEN FullScatter(g, s, mode) ELSE s, LAMBDA s1 :
         Then(ChildLoop(g, 1, s1, mode), LAMBDA s2 :
            IF mode = "rev" THEN FullScatter(g, s2, mode) ELSE s2))

(***************************************************************************)
(* Group.solve_linear                                                      *)
(***************************************************************************)
RECURSIVE SumSq(_, _)
SumSq(v, k) == IF k > Len(LinUnknowns) THEN 0 ELSE v[k - 1] * v[k - 1] + SumSq(v, k + 1)

\* the short-circuit on a zero right-hand side left out
NormBelowTol_Never(v) == FALSE

\* rhs.norm() < 1e-15; the entries are integers, so the norm is below the
\* tolerance when its square is zero
NormBelowTol(v) == SumSq(v, 1) = 0

\* what ln_solver.solve(rhs_buf, system, mode) may do: call back
\* system.apply_linear some times and return a vector
SolverResults(buf) == {buf, OnesU}
SolverCallbacks == 0 .. 1

RECURSIVE Callbacks(_, _, _)
Callbacks(n, s, mode) ==
    IF n = 0 THEN s
    ELSE Then(apply_linear("root", s, mode), LAMBDA sv : Callbacks(n - 1, sv, mode))

\* the outcomes of root.solve_linear(rhs, params, unknowns, mode)
solve_linear(rhs, mode) ==
    LET same == [sol_vec |-> sol_vec, rhs_buf |-> rhs_buf, sol_buf |-> sol_buf,
                 d |-> dvecs, log |-> <<>>, returned |-> "None", value |-> ZeroU]
    IN  IF ~active["root"] THEN {same}
        ELSE IF NormBelowTol(rhs)
        THEN {[same EXCEPT !.sol_vec = ZeroU, !.returned = "sol_vec", !.value = ZeroU]}
        ELSE LET m == IF mode = "auto" THEN ln_mode ELSE mode
                 buf == rhs_vec
             IN  {Then(Callbacks(n, [d |-> dvecs,
                                         log |-> <<[Event("solve", "root", m, dvecs, dvecs, dvecs, dvecs)
                                                      EXCEPT !.rhs = buf, !.result = res]>>], m),
                       LAMBDA s :
                          [sol_vec |-> res, rhs_buf |-> buf, sol_buf |-> res,
                           d |-> s.d, log |-> s.log, returned |-> "None", value |-> ZeroU]) :
                     res \in SolverResults(buf), n \in SolverCallbacks}

(***************************************************************************)
(* SpecLin                                                                 *)
(***************************************************************************)
\* a system is active only in an active group
Activities ==
    {a \in [Systems -> BOOLEAN] : \A sys \in Systems \ {"root"} : a[sys] => a[Parent[sys]]}

\* B.x is fed by A.x; C.x is fed by B.y (a chain) or by A.x (a fan-out)
ConnectionMaps ==
    {(<<"S", "B", "x">> :> <<"A", "x">>) @@ (<<"S", "C", "x">> :> <<"S", "B", "y">>),
     (<<"S", "B", "x">> :> <<"A", "x">>) @@ (<<"S", "C", "x">> :> <<"A", "x">>)}

InitLin ==
    /\ active \in Activities
    /\ local_subsystems = [g \in Groups |-> <<>>]
    /\ phase = "new"
    /\ connections = EmptyMap
    /\ dvecs = ZeroD
    /\ rhs_vec = ZeroU /\ sol_vec = ZeroU /\ rhs_buf = ZeroU /\ sol_buf = ZeroU
    /\ ln_mode \in Modes
    /\ lcall = NoLinCall
    /\ log = <<>>
    /\ lops = 0
    /\ XferIdle
    /\ ConnIdle
    /\ NlIdle

\* root._setup_communicators(comm)
SetupCommunicators ==
    /\ phase = "new"
    /\ local_subsystems' = setup_communicators("root", local_subsystems)
    /\ phase' = "comm"
    /\ UNCHANGED <<active, connections, dvecs, rhs_vec, sol_vec, rhs_buf, sol_buf,
                   ln_mode, lcall, log, lops>>
    /\ UNCHANGED <<xferVars, connVars, nlVars>>

\* root._setup_vectors(param_owners, connections), and the values the
\* vectors are then loaded with
SetupVectors ==
    /\ phase = "comm"
    /\ phase' = "ready"
    /\ connections' \in ConnectionMaps
    /\ dvecs' \in [dp : {ZeroP}, du : [UIdx -> Vals], dr : {ZeroU, OnesU}]
    /\ rhs_vec' \in {ZeroU, OnesU}
    /\ sol_vec' = OnesU
    /\ UNCHANGED <<active, local_subsystems, rhs_buf, sol_buf, ln_mode, lcall, log, lops>>
    /\ UNCHANGED <<xferVars, connVars, nlVars>>

\* root.apply_linear(params, unknowns, dparams, dunknowns, dresids, mode)
ApplyLinear(mode) ==
    /\ phase = "ready"
    /\ lops < MaxLinOps
    /\ LET s == apply_linear("root", [d |-> dvecs, log |-> <<>>], mode)
       IN  dvecs' = s.d /\ log' = s.log
    /\ lcall' = [op |-> "apply_linear", group |-> "root", mode |-> mode, rhs |-> ZeroU,
                 returned |-> "None", value |-> ZeroU]
    /\ lops' = lops + 1
    /\ UNCHANGED <<active, local_subsystems, phase, connections,
                   rhs_vec, sol_vec, rhs_buf, sol_buf, ln_mode>>
    /\ UNCHANGED <<xferVars, connVars, nlVars>>

\* root.solve_linear(rhs, params, unknowns, mode)
SolveLinear(rhs, mode) ==
    /\ phase = "ready"
    /\ lops < MaxLinOps
    /\ \E o \in solve_linear(rhs, mode) :
         /\ sol_vec' = o.sol_vec /\ rhs_buf' = o.rhs_buf /\ sol_buf' = o.sol_buf
         /\ dvecs' = o.d /\ log' = o.log
         /\ lcall' = [op |-> "solve_linear", group |-> "root", mode |-> mode, rhs |-> rhs,
                      returned |-> o.returned, value |-> o.value]
    /\ lops' = lops + 1
    /\ UNCHANGED <<active, local_subsystems, phase, connections, rhs_vec, ln_mode>>
    /\ UNCHANGED <<xferVars, connVars, nlVars>>

NextLin ==
    \/ SetupCommunicators
    \/ SetupVectors
    \/ \E mode \in Modes : ApplyLinear(mode)
    \/ \E rhs \in {ZeroU, OnesU}, mode \in {"auto", "rev"} : SolveLinear(rhs, mode)

SpecLin == InitLin /\ [][NextLin]_vars

(***************************************************************************)
(* Group.solve_nonlinear, Group.children_solve_nonlinear and               *)
(* Group.apply_nonlinear.  A state is the vectors v and the log of events. *)
(***************************************************************************)
\* the positions of the parameters of child c that group g transfers
RECURSIVE OwnedFor(_, _, _)
OwnedFor(g, c, k) ==
    IF k > Len(LinParams) THEN <<>>
    ELSE (IF /\ LinParams[k] \in DOMAIN connections
             /\ ParamOwner(LinParams[k]) = g
             /\ IsPrefix(pathname(c), LinParams[k])
          THEN <<k - 1>> ELSE <<>>) \o OwnedFor(g, c, k + 1)

\* the transfer plan of group g for its child c
XferPlanFor(g, c) ==
    [tgt |-> OwnedFor(g, c, 1),
     src |-> [k \in 1 .. Len(OwnedFor(g, c, 1)) |->
                 UIndex(connections[LinParams[OwnedFor(g, c, 1)[k] + 1]])]]

\* varmanager._transfer_data(name) of group g for its child c: the forward
\* DataTransfer of that child, run between unknowns and params
transfer_data_to(g, c, v) ==
    LET pl == XferPlanFor(g, c)
        sl == CHOOSE q \in to_slices(pl.src, pl.tgt) : TRUE
        r == transfer(sl[1], sl[2], <<>>,
                      [vec |-> v.u, obj |-> EmptyMap],
                      [vec |-> v.p, obj |-> EmptyMap], "fwd", FALSE)
    IN  [v EXCEPT !.u = r.src.vec, !.p = r.tgt.vec]

\* Component.solve_nonlinear: y = Jac[c] * x; a ParamComp computes nothing
LeafSolve(c, v) ==
    IF IsParamComp(c) THEN v
    ELSE LET y == CHOOSE i \in UnknownsOf(c) : TRUE
             x == CHOOSE i \in ParamsOf(c) : TRUE
         IN  [v EXCEPT !.u[y] = Jac[c] * v.p[x]]

\* Component.apply_nonlinear: the residual of y = Jac[c] * x
LeafResidual(c, v) ==
    IF IsParamComp(c) THEN v
    ELSE LET y == CHOOSE i \in UnknownsOf(c) : TRUE
             x == CHOOSE i \in ParamsOf(c) : TRUE
         IN  [v EXCEPT !.r[y] = Jac[c] * v.p[x] - v.u[y]]

RECURSIVE solve_nonlinear(_, _)
RECURSIVE children_solve_nonlinear(_, _)
RECURSIVE apply_nonlinear(_, _)
RECURSIVE NlChildLoop(_, _, _, _)

\* sub.solve_nonlinear(...) or sub.apply_nonlinear(...) of system sys
NlSystemRun(sys, s, op) ==
    IF sys \in Groups
    THEN IF op = "solve_nonlinear" THEN solve_nonlinear(sys, s) ELSE apply_nonlinear(sys, s)
    ELSE Then(s, LAMBDA sv :
            [sv EXCEPT !.v = IF op = "solve_nonlinear"
                             THEN LeafSolve(sys, sv.v) ELSE LeafResidual(sys, sv.v)])

\* the child run before the data is transferred to it
NlChildStep_RunFirst(g, c, s, op) ==
    Then(NlSystemRun(c, s, op), LAMBDA mid :
    Then(transfer_data_to(g, c, mid.v), LAMBDA post :
        [v |-> post,
         log |-> Append(Append(mid.log, Event("child", c, op, s.v, s.v, mid.v, mid.v)),
                        Event("transfer_to", c, op, mid.v, mid.v, post, post))]))

\* one pass of the loop over the local subsystems of g, for child c: the
\* transfer to the child, then the child
NlChildStep(g, c, s, op) ==
    Then(transfer_data_to(g, c, s.v), LAMBDA arg :
    Then(NlSystemRun(c, [v |-> arg,
                         log |-> Append(s.log, Event("transfer_to", c, op, s.v, s.v, arg, arg))],
                     op), LAMBDA mid :
        [v |-> mid.v,
         log |-> Append(mid.log, Event("child", c, op, arg, arg, mid.v, mid.v))]))

NlChildLoop(g, k, s, op) ==
    IF k > Len(local_subsystems[g]) THEN s
    ELSE Then(NlChildStep(g, local_subsystems[g][k], s, op), LAMBDA sv :
            NlChildLoop(g, k + 1, sv, op))

\* g.children_solve_nonlinear()
children_solve_nonlinear(g, s) == NlChildLoop(g, 1, s, "solve_nonlinear")

\* self.nl_solver.solve(params, unknowns, resids, self) of the default
\* solver RunOnce: one pass over the children
nl_solver_solve(g, s) ==
    Then(s, LAMBDA sv :
        children_solve_nonlinear(g,
            [sv EXCEPT !.log = Append(@, Event("nl_solver", g, "solve_nonlinear",
                                               sv.v, sv.v, sv.v, sv.v))]))

\* solve_nonlinear without the test of is_active()
solve_nonlinear_Unguarded(g, s) == nl_solver_solve(g, s)

\* g.solve_nonlinear(params, unknowns, resids)
solve_nonlinear(g, s) ==
    IF active[g] THEN nl_solver_solve(g, s) ELSE s

\* g.apply_nonlinear(params, unknowns, resids)
apply_nonlinear(g, s) ==
    IF ~active[g] THEN s ELSE NlChildLoop(g, 1, s, "apply_nonlinear")

(***************************************************************************)
(* Group.jacobian.  A state is the returned objects, the components'       *)
(* _jacobian_cache references and the log of events.                       *)
(***************************************************************************)
\* system.fd_options['force_fd'] of the components
force_fd == [A |-> FALSE, B |-> FALSE, C |-> TRUE]

\* the key of the derivative of unknown of with respect to variable wrt
JacKey(of, wrt) == <<of, wrt>>

\* what the jacobian routine of a component may return
JacReturns(c) ==
    IF IsParamComp(c)
    THEN {JacNone, JacMap(JacKey("x", "x") :> Scalar(1))}
    ELSE {JacNone,
          JacMap(JacKey("y", "x") :> Scalar(Jac[c])),
          JacMap(JacKey("y", "x") :> Array(<<<<Jac[c]>>>>)),
          JacMap((JacKey("y", "x") :> Scalar(Jac[c])) @@
                 (JacKey("y", "y") :> Array(<<<<1, 0>>, <<0, 1>>>>)))}

\* a scalar entry left as it is
NormalizeEntry_Keep(J) == J

\* if isinstance(J, real_types): jacobian_cache[key] = np.array([[J]])
NormalizeEntry(J) == IF J.scalar THEN Array(<<<<J.val>>>>) ELSE J

\* the loop over the entries of a returned mapping, which is changed in place
NormalizeJacobian(obj) ==
    IF obj.none THEN obj
    ELSE JacMap([key \in DOMAIN obj.map |-> NormalizeEntry(obj.map[key])])

RECURSIVE jacobian(_, _, _)
RECURSIVE JacobianLoop(_, _, _, _)

\* one pass of the loop over the local subsystems, for child c: rets[c] is
\* the object that the routine of a component returns; a group returns None
JacobianStep(c, s, rets) ==
    IF c \in Groups
    THEN Then(jacobian(c, s, rets), LAMBDA sv :
            [sv EXCEPT !.log = Append(@, Event("jacobian", c, "jacobian",
                                               JacNone, JacNone, JacNone, JacNone))])
    ELSE Then([s EXCEPT !.objs[c] = rets[c]], LAMBDA s1 :
         Then(IF IsExplicitComponent(c)
              THEN [s1 EXCEPT !.cache[c] = [set |-> TRUE, ref |-> c]]
              ELSE s1, LAMBDA s2 :
            [objs |-> [s2.objs EXCEPT ![c] = NormalizeJacobian(@)],
             cache |-> s2.cache,
             log |-> Append(s2.log,
                            Event("jacobian", c,
                                  IF force_fd[c] THEN "fd_jacobian" ELSE "jacobian",
                                  s.objs[c], rets[c], s2.objs[c],
                                  NormalizeJacobian(s2.objs[c])))]))

JacobianLoop(g, k, s, rets) ==
    IF k > Len(local_subsystems[g]) THEN s
    ELSE Then(JacobianStep(local_subsystems[g][k], s, rets), LAMBDA sv :
            JacobianLoop(g, k + 1, sv, rets))

\* g.jacobian(params, unknowns, resids)
jacobian(g, s, rets) == JacobianLoop(g, 1, s, rets)

(***************************************************************************)
(* SpecNl: the operations of the groups of a tree, on active and on        *)
(* inactive groups                                                         *)
(***************************************************************************)
\* the unknowns the vectors are loaded with: A.x is 1
UnknownsLoaded == {OnesU, [i \in UIdx |-> IF i = UIndex(<<"A", "x">>) THEN 1 ELSE 0]}

InitNl ==
    /\ active \in Activities
    /\ local_subsystems = [g \in Groups |-> <<>>]
    /\ phase = "new"
    /\ connections = EmptyMap
    /\ dvecs = ZeroD
    /\ rhs_vec = ZeroU /\ sol_vec = ZeroU /\ rhs_buf = ZeroU /\ sol_buf = ZeroU
    /\ ln_mode = "fwd"
    /\ lcall = NoLinCall
    /\ log = <<>>
    /\ lops = 0
    /\ XferIdle
    /\ ConnIdle
    /\ NlIdle

\* root._setup_vectors(param_owners, connections), and the values the
\* nonlinear and the derivative vectors are then loaded with
SetupNlVectors ==
    /\ phase = "comm"
    /\ phase' = "ready"
    /\ connections' \in ConnectionMaps
    /\ nvecs' \in [p : {ZeroP}, u : UnknownsLoaded, r : {ZeroU}]
    /\ dvecs' = [dp |-> ZeroP, du |-> OnesU, dr |-> OnesU]
    /\ rhs_vec' = OnesU
    /\ sol_vec' = OnesU
    /\ UNCHANGED <<active, local_subsystems, rhs_buf, sol_buf, ln_mode, lcall, log, lops>>
    /\ UNCHANGED <<jac_objs, jacobian_cache>>
    /\ UNCHANGED <<xferVars, connVars>>

\* what the routines of the components return in one call of jacobian
JacReturnMaps ==
    {rets \in [Components -> UNION {JacReturns(c) : c \in Components}] :
        \A c \in Components : rets[c] \in JacReturns(c)}

NlCall(op, g) ==
    [op |-> op, group |-> g, mode |-> "", rhs |-> ZeroU, returned |-> "None", value |-> ZeroU]

\* g.solve_nonlinear()
SolveNonlinear(g) ==
    /\ phase = "ready"
    /\ lops < MaxLinOps
    /\ LET s == solve_nonlinear(g, [v |-> nvecs, log |-> <<>>])
       IN  nvecs' = s.v /\ log' = s.log
    /\ lcall' = NlCall("solve_nonlinear", g)
    /\ lops' = lops + 1
    /\ UNCHANGED <<active, local_subsystems, phase, connections, dvecs,
                   rhs_vec, sol_vec, rhs_buf, sol_buf, ln_mode>>
    /\ UNCHANGED <<jac_objs, jacobian_cache>>
    /\ UNCHANGED <<xferVars, connVars>>

\* g.apply_nonlinear()
ApplyNonlinear(g) ==
    /\ phase = "ready"
    /\ lops < MaxLinOps
    /\ LET s == apply_nonlinear(g, [v |-> nvecs, log |-> <<>>])
       IN  nvecs' = s.v /\ log' = s.log
    /\ lcall' = NlCall("apply_nonlinear", g)
    /\ lops' = lops + 1
    /\ UNCHANGED <<active, local_subsystems, phase, connections, dvecs,
                   rhs_vec, sol_vec, rhs_buf, sol_buf, ln_mode>>
    /\ UNCHANGED <<jac_objs, jacobian_cache>>
    /\ UNCHANGED <<xferVars, connVars>>

\* g.jacobian(params, unknowns, resids), where the routine of component c
\* returns rets[c]
Jacobian(g, rets) ==
    /\ phase = "ready"
    /\ lops < MaxLinOps
    /\ LET s == jacobian(g, [objs |-> jac_objs, cache |-> jacobian_cache, log |-> <<>>], rets)
       IN  jac_objs' = s.objs /\ jacobian_cache' = s.cache /\ log' = s.log
    /\ lcall' = NlCall("jacobian", g)
    /\ lops' = lops + 1
    /\ UNCHANGED <<active, local_subsystems, phase, connections, dvecs,
                   rhs_vec, sol_vec, rhs_buf, sol_buf, ln_mode>>
    /\ UNCHANGED nvecs
    /\ UNCHANGED <<xferVars, connVars>>

NextNl ==
    \/ SetupCommunicators
    \/ SetupNlVectors
    \/ \E g \in Groups : SolveNonlinear(g)
    \/ \E g \in Groups : ApplyNonlinear(g)
    \/ \E g \in Groups, rets \in JacReturnMaps : Jacobian(g, rets)
    \/ \E mode \in Modes : ApplyLinear(mode)
    \/ \E rhs \in {ZeroU, OnesU}, mode \in {"auto", "rev"} : SolveLinear(rhs, mode)

SpecNl == InitNl /\ [][NextNl]_vars

(***************************************************************************)
(* Properties of DataTransfer.transfer                                     *)
(***************************************************************************)
PlanPos == 1 .. Len(src_idxs)

FwdDone == xlast.op = "transfer" /\ xlast.mode = "fwd"
RevDone == xlast.op = "transfer" /\ xlast.mode = "rev"

\* C1: after a forward transfer, for every paired position i of the plan the
\* target vector at target index i holds the value the source vector held at
\* source index i when the call started; the source vector is unchanged and
\* every target entry that is no target index of the plan is unchanged.
C1_ForwardTransfer ==
    FwdDone =>
        /\ \A i \in PlanPos : tgtvec.vec[tgt_idxs[i]] = xlast.src[src_idxs[i]]
        /\ srcvec.vec = xlast.src
        /\ srcvec.obj = xlast.sobj
        /\ \A t \in Idx \ Range(tgt_idxs) : tgtvec.vec[t] = xlast.tgt[t]

\* a forward transfer over a plan with a pair, which changed a target entry
\* and left another target entry alone
C1_Witness ==
    /\ FwdDone
    /\ Len(src_idxs) >= 1
    /\ tgtvec.vec # xlast.tgt
    /\ Idx \ Range(tgt_idxs) # {}

\* the sum of the target values at the positions from k on that are paired
\* with source index j
RECURSIVE SumPaired(_, _, _)
SumPaired(tvec, j, k) ==
    IF k > Len(src_idxs) THEN 0
    ELSE (IF src_idxs[k] = j THEN tvec[tgt_idxs[k]] ELSE 0) + SumPaired(tvec, j, k + 1)

\* C2: a reverse transfer accumulates: for every source index j the source
\* value after the call is its value before the call plus the sum of the
\* target values at every target index paired with j, also when several
\* targets are paired with j; the target vector is unchanged.
C2_ReverseAccumulates ==
    RevDone =>
        /\ \A j \in Idx : srcvec.vec[j] = xlast.src[j] + SumPaired(xlast.tgt, j, 1)
        /\ tgtvec.vec = xlast.tgt
        /\ tgtvec.obj = xlast.tobj

\* a reverse transfer where two targets with non-zero values feed one source index
C2_Witness ==
    /\ RevDone
    /\ \E i, k \in PlanPos :
         /\ i # k
         /\ src_idxs[i] = src_idxs[k]
         /\ xlast.tgt[tgt_idxs[i]] # 0
         /\ xlast.tgt[tgt_idxs[k]] # 0

\* the number of plan positions paired with source index j
NumPaired(j) == Cardinality({i \in PlanPos : src_idxs[i] = j})

RoundTripDone == rt.stage = 3

\* C10 as stated: from an all-zero target vector, a forward transfer from s,
\* the source vector zeroed, then a reverse transfer leave the source vector
\* equal to s at every source index of the plan.
C10_RoundTripRestores ==
    RoundTripDone => \A i \in PlanPos : srcvec.vec[src_idxs[i]] = rt.s[src_idxs[i]]

\* C10 amended: after that round trip the source vector holds, at every source
\* index j of the plan, s[j] times the number of targets paired with j.
C10_RoundTripCounts ==
    RoundTripDone =>
        \A i \in PlanPos :
            srcvec.vec[src_idxs[i]] = rt.s[src_idxs[i]] * NumPaired(src_idxs[i])

\* a round trip over a plan where one source index with a non-zero value feeds
\* two targets
C10_Witness ==
    /\ RoundTripDone
    /\ \E i \in PlanPos : NumPaired(src_idxs[i]) = 2 /\ rt.s[src_idxs[i]] # 0

(***************************************************************************)
(* Properties of the connection resolution                                 *)
(***************************************************************************)
ImplicitDone == ret.op = "implicit"
ExplicitDone == ret.op = "explicit"

\* the relative names that two or more entries of a dictionary have
SharedNames(var_dict) ==
    {var_dict[a] : a \in {b \in DOMAIN var_dict :
                            \E c \in DOMAIN var_dict : c # b /\ var_dict[c] = var_dict[b]}}

\* C3: _get_implicit_connections raises an error, and returns no connection
\* map, whenever some relative name is the relative name of two or more
\* entries of the unknowns dictionary, whether or not any parameter has that
\* relative name; the error is raised before any connection is produced.
C3_AmbiguousRaises ==
    (ImplicitDone /\ SharedNames(unknowns_dict[ret.group]) # {}) =>
        /\ ~ret.ok
        /\ DOMAIN ret.conns = {}
        /\ ret.var_name \in SharedNames(unknowns_dict[ret.group])

\* an implicit resolution where two unknowns share a relative name that no
\* parameter has
C3_Witness ==
    /\ ImplicitDone
    /\ \E n \in SharedNames(unknowns_dict[ret.group]) :
          \A pn \in DOMAIN params_dict[ret.group] : params_dict[ret.group][pn] # n

\* C4: when no relative name is shared by two unknowns, the map returned by
\* _get_implicit_connections has the entry p -> u exactly when the relative
\* name of parameter p equals the relative name of unknown u; a parameter
\* whose relative name matches no unknown is absent from the map.
C4_ImplicitMatches ==
    (ImplicitDone /\ SharedNames(unknowns_dict[ret.group]) = {}) =>
        /\ ret.ok
        /\ DOMAIN ret.conns \subseteq DOMAIN params_dict[ret.group]
        /\ \A pn \in DOMAIN params_dict[ret.group], un \in DOMAIN unknowns_dict[ret.group] :
              (pn \in DOMAIN ret.conns /\ ret.conns[pn] = un)
                  <=> (params_dict[ret.group][pn] = unknowns_dict[ret.group][un])

\* an implicit resolution, with no shared unknown name, that maps two
\* parameters to one unknown
C4_Witness ==
    /\ ImplicitDone
    /\ ret.ok
    /\ \E pn, qn \in DOMAIN ret.conns : pn # qn /\ ret.conns[pn] = ret.conns[qn]
    /\ SharedNames(unknowns_dict[ret.group]) = {}
    /\ DOMAIN unknowns_dict[ret.group] # {}

\* C5: when resolution succeeds, every key of the map returned by
\* _get_explicit_connections or _get_implicit_connections is a key of the
\* group's parameter dictionary and every value is a key of the group's
\* unknowns dictionary, the entries of nested subgroups included.
C5_Closure ==
    ((ExplicitDone \/ ImplicitDone) /\ ret.ok) =>
        /\ DOMAIN ret.conns \subseteq DOMAIN params_dict[ret.group]
        /\ Range(ret.conns) \subseteq DOMAIN unknowns_dict[ret.group]

\* an explicit resolution on the root whose map has an entry from a link of
\* the root and an entry from a link of the nested group S
C5_Witness ==
    /\ ExplicitDone
    /\ ret.ok
    /\ ret.group = "root"
    /\ DOMAIN links["root"] # {}
    /\ DOMAIN links["S"] # {}
    /\ Cardinality(DOMAIN ret.conns) >= 2

\* the groups of the tree under g, g included
RECURSIVE GroupsUnder(_)
GroupsUnder(g) ==
    {g} \cup UNION {GroupsUnder(sub) : sub \in Range(Subsystems[g]) \cap Groups}

\* the names of the links under g that match no variable
UnmatchedNames(g) ==
    UNION {{links[h][t] : t \in {u \in DOMAIN links[h] :
                \A pn \in DOMAIN unknowns_dict[h] : unknowns_dict[h][pn] # links[h][u]}}
           \cup {t \in DOMAIN links[h] :
                \A pn \in DOMAIN params_dict[h] : params_dict[h][pn] # t} :
           h \in GroupsUnder(g)}

\* C6: if a link declared in the group or in any nested subgroup names a
\* source that is the relative name of no entry of that group's unknowns
\* dictionary, or a target that is the relative name of no entry of its
\* parameter dictionary, _get_explicit_connections raises an error naming
\* the unmatched variable and returns no map.
C6_ExplicitFailsEagerly ==
    (ExplicitDone /\ UnmatchedNames(ret.group) # {}) =>
        /\ ~ret.ok
        /\ DOMAIN ret.conns = {}
        /\ ret.var_name \in UnmatchedNames(ret.group)

\* an explicit resolution on the root, after setup, where the root's link
\* resolves and a link of the nested group S names a target no parameter has
C6_Witness ==
    /\ ExplicitDone
    /\ ret.group = "root"
    /\ DOMAIN links["root"] # {}
    /\ \A t \in DOMAIN links["root"] : ~LinkFails("root", t)
    /\ \E t \in DOMAIN links["S"] :
          /\ ~NotFound(links["S"][t], unknowns_dict["S"])
          /\ NotFound(t, params_dict["S"])

(***************************************************************************)
(* Properties of Group.solve_linear and Group.apply_linear                 *)
(***************************************************************************)
SolveDone == lcall.op = "solve_linear"

IsZeroRhs(v) == \A i \in UIdx : v[i] = 0

\* the solver calls of the last call on the root
SolveEvents == {k \in DOMAIN log : log[k].kind = "solve"}

\* C7: on an active group, solve_linear with a right-hand side whose norm is
\* below the tolerance (an all-zero right-hand side) sets every entry of the
\* solution vector to zero, returns that all-zero solution, and invokes
\* neither ln_solver.solve nor any apply_linear callback.
C7_ZeroRhsShortCircuit ==
    (SolveDone /\ active["root"] /\ IsZeroRhs(lcall.rhs)) =>
        /\ sol_vec = ZeroU
        /\ lcall.returned = "sol_vec"
        /\ lcall.value = ZeroU
        /\ log = <<>>

\* solve_linear on an active group with a zero right-hand side, while the
\* group's own rhs_vec is not zero
C7_Witness ==
    /\ SolveDone
    /\ active["root"]
    /\ IsZeroRhs(lcall.rhs)
    /\ ~IsZeroRhs(rhs_vec)

\* C8 as stated: on an active group, solve_linear with a right-hand side
\* whose norm is not below the tolerance copies the rhs passed by the caller
\* into the internal buffer, invokes the linear solver exactly once on that
\* buffer, stores the solver's result in the solution vector, and returns
\* that solution to the caller.
C8_SolveDelegates ==
    (SolveDone /\ active["root"] /\ ~IsZeroRhs(lcall.rhs)) =>
        /\ rhs_buf = lcall.rhs
        /\ Cardinality(SolveEvents) = 1
        /\ \A k \in SolveEvents : log[k].rhs = rhs_buf /\ log[k].result = sol_vec
        /\ lcall.returned = "sol_vec"
        /\ lcall.value = sol_vec

\* the forward child steps of the last call
FwdChildSteps == {k \in DOMAIN log : log[k].kind = "child" /\ log[k].mode = "fwd"}

\* C9: in forward mode, after the step of a child c that is a Component and
\* not a ParamComp, the residual-derivative of every unknown v of c equals
\* dunknowns[v] minus the value c's own apply_linear wrote for v (for B, with
\* y = 2x fed by A.x and a zero residual-derivative before, du_B - 2*du_A);
\* after the step of a Group or a ParamComp it is exactly what the child's
\* own apply_linear left, with no sign flip and no identity term.
C9_ForwardChildStep ==
    \A k \in FwdChildSteps :
        IF log[k].sys \in {"B", "C"}
        THEN /\ \A v \in UnknownsOf(log[k].sys) :
                   log[k].post.dr[v] = log[k].post.du[v] - log[k].mid.dr[v]
             /\ (log[k].sys = "B" /\ log[k].pre.dr[UIndex(<<"S", "B", "y">>)] = 0) =>
                   log[k].post.dr[UIndex(<<"S", "B", "y">>)] =
                       log[k].post.du[UIndex(<<"S", "B", "y">>)]
                           - 2 * log[k].post.du[UIndex(<<"A", "x">>)]
        ELSE /\ log[k].post.dr = log[k].mid.dr
             /\ (log[k].sys \in Groups /\ k > 1) => log[k].post = log[k - 1].post

\* a forward apply_linear that steps the ParamComp A, the group S and the
\* component B, where B's apply_linear wrote 2 = 2*du_A into a zero
\* residual-derivative and du_B is 1
C9_Witness ==
    /\ \E k \in FwdChildSteps : log[k].sys = "A"
    /\ \E k \in FwdChildSteps : log[k].sys = "S" /\ log[k].post.dr # log[k].pre.dr
    /\ \E k \in FwdChildSteps :
          /\ log[k].sys = "B"
          /\ log[k].pre.dr[UIndex(<<"S", "B", "y">>)] = 0
          /\ log[k].mid.dr[UIndex(<<"S", "B", "y">>)] = 2
          /\ log[k].post.du[UIndex(<<"S", "B", "y">>)] = 1
          /\ log[k].post.dr[UIndex(<<"S", "B", "y">>)] = 0 - 1

(***************************************************************************)
(* By-object connections (SpecXfer)                                        *)
(***************************************************************************)
TransferDone == xlast.op = "transfer"

\* C11: a transfer with mode 'fwd' and deriv False assigns to every
\* by-object target the whole value of its connected source; a transfer with
\* mode 'fwd' and deriv True, and any transfer with mode 'rev', leaves every
\* by-object value in both vectors unchanged.
C11_ByObjForwardOnly ==
    TransferDone =>
        IF xlast.mode = "fwd" /\ ~xlast.deriv
        THEN /\ \A k \in DOMAIN byobj_conns :
                   tgtvec.obj[byobj_conns[k][1]] = xlast.sobj[byobj_conns[k][2]]
             /\ srcvec.obj = xlast.sobj
        ELSE /\ srcvec.obj = xlast.sobj
             /\ tgtvec.obj = xlast.tobj

\* a forward, non-derivative transfer that gave two by-object targets the
\* different values of their two sources
C11_Witness ==
    /\ TransferDone
    /\ xlast.mode = "fwd" /\ ~xlast.deriv
    /\ Len(byobj_conns) = 2
    /\ xlast.tobj = [n \in ObjTgts |-> "n"]
    /\ tgtvec.obj = [ot1 |-> "a", ot2 |-> "b"]

(***************************************************************************)
(* Properties of the nonlinear operations of the groups (SpecNl)           *)
(***************************************************************************)
JacobianDone == lcall.op = "jacobian"

\* the steps of the last jacobian call that asked a component
JacobianSteps == {k \in DOMAIN log : log[k].kind = "jacobian" /\ log[k].sys \in Components}

\* the mapping stored as the cached Jacobian of component c
CachedJacobian(c) == jac_objs[jacobian_cache[c].ref]

\* C12: after Group.jacobian returns, no entry of a local child's Jacobian
\* mapping is a bare scalar: an entry the child supplied as a real scalar J
\* is the one-by-one array [[J]], in the mapping that is stored as the
\* child's cached Jacobian, and an entry that was an array is unchanged.
C12_JacobianNormalized ==
    JacobianDone =>
        /\ \A c \in Range(local_subsystems[lcall.group]) \cap Components :
              \E k \in JacobianSteps : log[k].sys = c
        /\ \A k \in JacobianSteps :
              LET c == log[k].sys
                  supplied == log[k].arg
                  now == jac_objs[c]
              IN  /\ now.none = supplied.none
                  /\ DOMAIN now.map = DOMAIN supplied.map
                  /\ \A key \in DOMAIN supplied.map :
                        /\ ~now.map[key].scalar
                        /\ now.map[key] = IF supplied.map[key].scalar
                                          THEN Array(<<<<supplied.map[key].val>>>>)
                                          ELSE supplied.map[key]
                  /\ IsExplicitComponent(c) =>
                        jacobian_cache[c].set /\ CachedJacobian(c) = now

\* root.jacobian where B supplied the scalar 2 and a two-by-two array, and
\* the ParamComp A supplied a scalar and has no cached Jacobian
C12_Witness ==
    /\ JacobianDone
    /\ lcall.group = "root"
    /\ \E k \in JacobianSteps :
          /\ log[k].sys = "B"
          /\ log[k].arg.map = (JacKey("y", "x") :> Scalar(2)) @@
                              (JacKey("y", "y") :> Array(<<<<1, 0>>, <<0, 1>>>>))
    /\ jacobian_cache["B"].set
    /\ CachedJacobian("B").map = (JacKey("y", "x") :> Array(<<<<2>>>>)) @@
                                 (JacKey("y", "y") :> Array(<<<<1, 0>>, <<0, 1>>>>))
    /\ \E k \in JacobianSteps : log[k].sys = "A" /\ ~log[k].arg.none
    /\ ~jacobian_cache["A"].set

\* the operations of a group
GroupOps == {"solve_nonlinear", "apply_nonlinear", "jacobian", "apply_linear", "solve_linear"}

\* a step that is a call of one of the operations on an inactive group
InactiveCall ==
    /\ lops' = lops + 1
    /\ lcall'.op \in GroupOps
    /\ ~active[lcall'.group]

\* C13: on a group whose is_active() is false, each of solve_nonlinear,
\* apply_nonlinear, jacobian, apply_linear and solve_linear performs no data
\* transfer, invokes no child system and no solver, and leaves every vector
\* unchanged; and after _setup_communicators an inactive group has an empty
\* set of local subsystems.
C13_InactiveNoWork ==
    /\ [][InactiveCall =>
             /\ log' = <<>>
             /\ UNCHANGED <<nvecs, dvecs, rhs_vec, sol_vec, rhs_buf, sol_buf>>
             /\ UNCHANGED <<jac_objs, jacobian_cache>>]_vars
    /\ [](phase # "new" =>
             \A g \in Groups : ~active[g] => local_subsystems[g] = <<>>)

\* jacobian, which has no test of is_active(), was called on the inactive
\* group S of a tree whose root is active and has a local subsystem, and
\* whose vectors are not zero
C13_Witness ==
    /\ lcall.op = "jacobian"
    /\ lcall.group = "S"
    /\ ~active["S"]
    /\ local_subsystems["root"] = <<"A">>
    /\ local_subsystems["S"] = <<>>
    /\ nvecs.u = OnesU /\ sol_vec = OnesU
    /\ log = <<>>

NlEvalDone == lcall.op \in {"solve_nonlinear", "apply_nonlinear"}

\* the groups the last call evaluated: the active groups from its group down
NlVisited ==
    IF active[lcall.group] THEN {h \in GroupsUnder(lcall.group) : active[h]} ELSE {}

\* what the last call did for the children of group g, in order
NlStepsOf(g) ==
    SelectSeq(log, LAMBDA e : /\ e.kind \in {"transfer_to", "child"}
                              /\ Parent[e.sys] = g)

\* the positions of the parameters of child c fed by a connection of group g
Inbound(g, c) ==
    {j \in ParamsOf(c) : /\ LinParams[j + 1] \in DOMAIN connections
                         /\ ParamOwner(LinParams[j + 1]) = g}

\* C14: in children_solve_nonlinear and apply_nonlinear of an active group
\* the children visited are exactly the locally active subsystems, in the
\* order in which they were registered with add(); for each visited child
\* the data transfer for that child completes before the child's
\* solve_nonlinear/apply_nonlinear is invoked, so the child reads in each
\* connected parameter the value of its source; a child that is not local
\* is neither transferred to nor invoked.
C14_NonlinearOrder ==
    NlEvalDone =>
        \A g \in Groups :
            LET steps == NlStepsOf(g)
                locals == SelectSeq(Subsystems[g], LAMBDA c : active[c])
            IN  IF g \in NlVisited
                THEN /\ Len(steps) = 2 * Len(locals)
                     /\ \A i \in 1 .. Len(locals) :
                           /\ steps[2 * i - 1].kind = "transfer_to"
                           /\ steps[2 * i - 1].sys = locals[i]
                           /\ steps[2 * i].kind = "child"
                           /\ steps[2 * i].sys = locals[i]
                           /\ steps[2 * i].mode = lcall.op
                           /\ steps[2 * i].pre = steps[2 * i - 1].post
                           /\ \A j \in Inbound(g, locals[i]) :
                                 steps[2 * i].pre.p[j] =
                                     steps[2 * i].pre.u[UIndex(connections[LinParams[j + 1]])]
                ELSE steps = <<>>

\* root.solve_nonlinear on a chain where C is not local: A, then S and in
\* it B alone are visited; B read 1 in B.x, which was 0 before the transfer,
\* and wrote 2 into B.y
C14_Witness ==
    /\ lcall.op = "solve_nonlinear"
    /\ lcall.group = "root"
    /\ active["A"] /\ active["B"] /\ ~active["C"]
    /\ connections[<<"S", "C", "x">>] = <<"S", "B", "y">>
    /\ \E k \in DOMAIN log :
          /\ log[k].kind = "transfer_to" /\ log[k].sys = "S"
          /\ log[k].pre.p[PIndex(<<"S", "B", "x">>)] = 0
          /\ log[k].post.p[PIndex(<<"S", "B", "x">>)] = 1
    /\ \A k \in DOMAIN log : log[k].sys # "C"
    /\ nvecs.u[UIndex(<<"S", "B", "y">>)] = 2

(***************************************************************************)
(* Properties of the transfers and the child steps of Group.apply_linear   *)
(* (SpecLin)                                                               *)
(***************************************************************************)
ApplyDone(mode) == lcall.op = "apply_linear" /\ lcall.mode = mode

\* the groups whose apply_linear the last call ran: the active groups
LinVisited == IF active[lcall.group] THEN {h \in GroupsUnder(lcall.group) : active[h]} ELSE {}

\* what the last call did in group g, in order: the transfers of g and the
\* steps of the children of g
LinStepsOf(g) ==
    SelectSeq(log, LAMBDA e :
        IF e.kind = "transfer" THEN e.sys = g
        ELSE e.kind \in {"transfer_to", "child"} /\ Parent[e.sys] = g)

\* C15 as stated: Group.apply_linear in forward mode first runs one full
\* derivative transfer over the whole group's connections, and then, for
\* each local child in registration order, runs the transfer engine for that
\* child alone before that child's linear-operator application is invoked.
C15_ForwardPerChildTransfer ==
    ApplyDone("fwd") =>
        \A g \in LinVisited :
            LET steps == LinStepsOf(g)
                locals == local_subsystems[g]
            IN  /\ Len(steps) = 1 + 2 * Len(locals)
                /\ steps[1].kind = "transfer" /\ steps[1].sys = g
                /\ \A i \in 1 .. Len(locals) :
                      /\ steps[2 * i].kind = "transfer_to" /\ steps[2 * i].sys = locals[i]
                      /\ steps[2 * i + 1].kind = "child" /\ steps[2 * i + 1].sys = locals[i]

\* C15, amended: Group.apply_linear in forward mode first runs one full
\* derivative transfer over the whole group's connections, and then invokes
\* the linear-operator application of each local child in registration
\* order, with no further transfer: each child starts from the vectors its
\* predecessor (for the first child, the full transfer) left.
C15_ForwardSingleScatter ==
    ApplyDone("fwd") =>
        \A g \in LinVisited :
            LET steps == LinStepsOf(g)
                locals == local_subsystems[g]
            IN  /\ Len(steps) = 1 + Len(locals)
                /\ steps[1].kind = "transfer" /\ steps[1].sys = g /\ steps[1].mode = "fwd"
                /\ \A i \in 1 .. Len(locals) :
                      /\ steps[i + 1].kind = "child" /\ steps[i + 1].sys = locals[i]
                      /\ steps[i + 1].pre = steps[i].post

\* a forward apply_linear on the tree with every system active, whose full
\* transfer wrote 1 into the derivative of B.x: one transfer for the root,
\* one for S, and the steps of A, B, C and S
C15_Witness ==
    /\ ApplyDone("fwd")
    /\ \A sys \in Systems : active[sys]
    /\ Len(log) = 6
    /\ log[1].kind = "transfer" /\ log[1].sys = "root"
    /\ log[1].pre.dp[PIndex(<<"S", "B", "x">>)] = 0
    /\ log[1].post.dp[PIndex(<<"S", "B", "x">>)] = 1
    /\ log[2].kind = "child" /\ log[2].sys = "A"

\* the reverse child steps of the last call
RevChildSteps == {k \in DOMAIN log : log[k].kind = "child" /\ log[k].mode = "rev"}

\* C16: in reverse mode, for each local child c that is a Component and not a
\* ParamComp, c's own apply_linear is invoked with c's residual-derivative
\* negated; after the step the residual-derivative has the value it had
\* before the step (c does not write it); and for every unknown v of c,
\* dunknowns[v] after the step is its value after c's apply_linear plus the
\* restored dresids[v].
C16_ReverseChildStep ==
    \A k \in RevChildSteps :
        IsExplicitComponent(log[k].sys) =>
            /\ \A v \in UIdx :
                  log[k].arg.dr[v] = IF v \in UnknownsOf(log[k].sys)
                                     THEN 0 - log[k].pre.dr[v] ELSE log[k].pre.dr[v]
            /\ log[k].arg.du = log[k].pre.du /\ log[k].arg.dp = log[k].pre.dp
            /\ log[k].mid.dr = log[k].arg.dr
            /\ log[k].post.dr = log[k].pre.dr
            /\ \A v \in UnknownsOf(log[k].sys) :
                  log[k].post.du[v] = log[k].mid.du[v] + log[k].post.dr[v]

\* a reverse step of B whose residual-derivative is 1: B's apply_linear saw
\* -1 and added -2 to the derivative of B.x, and dunknowns of B.y went from
\* 1 to 2
C16_Witness ==
    \E k \in RevChildSteps :
        /\ log[k].sys = "B"
        /\ log[k].pre.dr[UIndex(<<"S", "B", "y">>)] = 1
        /\ log[k].arg.dr[UIndex(<<"S", "B", "y">>)] = 0 - 1
        /\ log[k].mid.dp[PIndex(<<"S", "B", "x">>)] =
              log[k].pre.dp[PIndex(<<"S", "B", "x">>)] - 2
        /\ log[k].mid.du[UIndex(<<"S", "B", "y">>)] = 1
        /\ log[k].post.du[UIndex(<<"S", "B", "y">>)] = 2
        /\ log[k].post.dr[UIndex(<<"S", "B", "y">>)] = 1

\* C17: on an active group, apply_linear in reverse mode runs exactly one
\* full reverse derivative transfer, after every local child has been
\* processed and none before or between the children; in forward mode no
\* transfer is run after the children have been processed.
C17_ScatterPlacement ==
    /\ ApplyDone("rev") =>
          \A g \in LinVisited :
              LET steps == LinStepsOf(g)
                  locals == local_subsystems[g]
              IN  /\ Len(steps) = Len(locals) + 1
                  /\ \A i \in 1 .. Len(locals) :
                        steps[i].kind = "child" /\ steps[i].sys = locals[i]
                  /\ steps[Len(steps)].kind = "transfer"
                  /\ steps[Len(steps)].sys = g
                  /\ steps[Len(steps)].mode = "rev"
    /\ ApplyDone("fwd") =>
          \A g \in LinVisited :
              LET steps == LinStepsOf(g)
              IN  \A i, j \in DOMAIN steps :
                     (steps[i].kind = "child" /\ i < j) => steps[j].kind = "child"

\* a reverse apply_linear on the tree with every system active: the step of
\* A, the steps of B and C, the transfer of S, the step of S, and last the
\* transfer of the root, which added to the derivative of A.x
C17_Witness ==
    /\ ApplyDone("rev")
    /\ \A sys \in Systems : active[sys]
    /\ Len(log) = 6
    /\ log[1].kind = "child" /\ log[1].sys = "A"
    /\ log[4].kind = "transfer" /\ log[4].sys = "S"
    /\ log[6].kind = "transfer" /\ log[6].sys = "root"
    /\ log[6].post.du[UIndex(<<"A", "x">>)] # log[6].pre.du[UIndex(<<"A", "x">>)]

====
